---- MODULE Spec2Model ----
(***************************************************************************)
(* Library catalog: Book / BookInstance / Borrowing availability           *)
(* bookkeeping (book/models.py) and the seed command                       *)
(* (book/management/commands/create_initial_data.py).                      *)
(*                                                                         *)
(* The stored rows are the variables books, insts and bors.  Python model  *)
(* objects are separate in-memory copies of rows: an object keeps the      *)
(* field values it was loaded with until it is saved, and saving an object *)
(* writes all of its fields.  sess holds the object graphs of callers of   *)
(* the catalog operations, pool those of the seed command.                 *)
(***************************************************************************)
EXTENDS Integers, Sequences, FiniteSets

VARIABLES
    books,    \* stored Book rows, by id: [total, avail]
    insts,    \* stored BookInstance rows, by id: [book, inv, avail, deleted]
    bors,     \* stored Borrowing rows, by id: [inst, returned, rdate]
    now,      \* timezone.now(), a counter
    sess,     \* per caller: one BookInstance object, its cached .book, one Borrowing object
    last,     \* the last operation and how it ended
    pc,       \* seed command: position in handle()
    args,     \* seed command: the command-line counts
    booksLeft,\* seed command: remaining iterations of the book loop
    pool,     \* seed command: available_instances, a set of BookInstance objects
    pool0,    \* seed command: size of available_instances when create_borrowings started
    created,  \* seed command: created
    tries     \* seed command: tries

vars == <<books, insts, bors, now, sess, last, pc, args, booksLeft, pool, pool0, created, tries>>

seedVars == <<pc, args, booksLeft, pool, pool0, created, tries>>

----------------------------------------------------------------------------
(* Bounds of the model *)

MaxBooks == 1
MaxInsts == 2
MaxBors == 2
MaxCopies == 2
MaxCount == 2
MaxSeedBooks == 2
MaxShelfBooks == 2
MaxShelf == 3

\* Callers that keep their objects between operations.
Sessions == {"s1"}

(* Program constants *)
TriesFactor == 10
BookPad == 3
SeqPad == 4
SeedCopiesMax == 6

----------------------------------------------------------------------------
(* Inventory numbers are strings, modelled as sequences of characters. *)

Digit == <<"0", "1", "2", "3", "4", "5", "6", "7", "8", "9">>

DigitValue(c) == CHOOSE d \in 0..9 : Digit[d + 1] = c

IsDigit(c) == \E d \in 0..9 : Digit[d + 1] = c

RECURSIVE Decimal(_)
Decimal(n) == IF n < 10 THEN <<Digit[n + 1]>> ELSE Decimal(n \div 10) \o <<Digit[(n % 10) + 1]>>

RECURSIVE ZeroPad(_, _)
ZeroPad(s, w) == IF Len(s) >= w THEN s ELSE ZeroPad(<<"0">> \o s, w)

\* f"{book_id:03d}-{num:04d}"
FormatInventory(bookId, num) ==
    ZeroPad(Decimal(bookId), BookPad) \o <<"-">> \o ZeroPad(Decimal(num), SeqPad)

\* s.split('-')[-1]
RECURSIVE LastPart(_)
LastPart(s) ==
    IF s = <<>> THEN <<>>
    ELSE IF s[Len(s)] = "-" THEN <<>>
    ELSE LastPart(SubSeq(s, 1, Len(s) - 1)) \o <<s[Len(s)]>>

\* int(s) accepts a non-empty string of digits
Parses(s) == s # <<>> /\ \A k \in 1..Len(s) : IsDigit(s[k])

RECURSIVE ParseInt(_)
ParseInt(s) ==
    IF s = <<>> THEN 0
    ELSE 10 * ParseInt(SubSeq(s, 1, Len(s) - 1)) + DigitValue(s[Len(s)])

----------------------------------------------------------------------------
(* Book.save *)

\* Variant: Book.save without the clamp
ClampDropped(a, t) == a

\* if self.available_copies > self.total_copies: self.available_copies = self.total_copies
Clamp(a, t) == IF a > t THEN t ELSE a

\* PositiveIntegerField: the column carries CHECK (available_copies >= 0)
ColumnAccepts(a) == a >= 0

\* Book.save of an object with fields (t, a); b = 0 is an object with no pk.
\* ok = FALSE: the write raised IntegrityError and stored nothing.
BookSave(bks, b, t, a) ==
    LET c == Clamp(a, t)
        row == [total |-> t, avail |-> c]
    IN  IF ~(ColumnAccepts(c) /\ ColumnAccepts(t))
        THEN [ok |-> FALSE, books |-> bks, avail |-> c, id |-> b]
        ELSE IF b = 0
        THEN [ok |-> TRUE, books |-> Append(bks, row), avail |-> c, id |-> Len(bks) + 1]
        ELSE [ok |-> TRUE, books |-> [bks EXCEPT ![b] = row], avail |-> c, id |-> b]

----------------------------------------------------------------------------
(* BookInstance.save *)

LiveInsts(ins) == {i \in 1..Len(ins) : ~ins[i].deleted}

SiblingIds(ins, b) == {i \in LiveInsts(ins) : ins[i].book = b}

MaxOf(S) == CHOOSE m \in S : \A x \in S : x <= m

\* BookInstance.objects.filter(book=self.book).order_by('id').last(); 0 is None
LastSibling(ins, b) == IF SiblingIds(ins, b) = {} THEN 0 ELSE MaxOf(SiblingIds(ins, b))

\* unique=True on inventory_number
InventoryInUse(ins, inv) == \E i \in LiveInsts(ins) : ins[i].inv = inv

\* Saving a new BookInstance of book b; inv = <<>> asks for auto-numbering.
\* outcome "ValueError": int() rejected the last sibling's suffix;
\* outcome "IntegrityError": the unique constraint rejected the number.
InstanceCreate(ins, b, inv, avail) ==
    LET lst == LastSibling(ins, b)
        suffix == IF lst = 0 THEN <<>> ELSE LastPart(ins[lst].inv)
        crash == inv = <<>> /\ lst # 0 /\ ~Parses(suffix)
        num == IF lst = 0 THEN 1 ELSE ParseInt(suffix) + 1
        number == IF inv = <<>> THEN FormatInventory(b, num) ELSE inv
        row == [book |-> b, inv |-> number, avail |-> avail, deleted |-> FALSE]
    IN  IF crash THEN [outcome |-> "ValueError", insts |-> ins, inv |-> <<>>]
        ELSE IF InventoryInUse(ins, number)
        THEN [outcome |-> "IntegrityError", insts |-> ins, inv |-> number]
        ELSE [outcome |-> "ok", insts |-> Append(ins, row), inv |-> number]

----------------------------------------------------------------------------
(* In-memory objects.  inst = 0: no BookInstance object; bk: .book is       *)
(* cached; bor = 0: no saved Borrowing object.                             *)

NoObject ==
    [inst |-> 0, iav |-> FALSE, bk |-> FALSE, btotal |-> 0, bavail |-> 0,
     bor |-> 0, ret |-> FALSE, rdate |-> 0]

\* A BookInstance object as a query returns it: its stored fields, .book not yet loaded.
LoadInstance(ins, i) == [NoObject EXCEPT !.inst = i, !.iav = ins[i].avail]

\* A Borrowing object as a query returns it; its book_instance is loaded on first access.
LoadBorrowing(ins, brs, b) ==
    [LoadInstance(ins, brs[b].inst) EXCEPT !.bor = b, !.ret = brs[b].returned,
                                           !.rdate = brs[b].rdate]

\* First access of book_instance.book loads the row; later accesses use the cache.
WithBook(bks, ins, o) ==
    IF o.bk THEN o
    ELSE [o EXCEPT !.bk = TRUE,
                   !.btotal = bks[ins[o.inst].book].total,
                   !.bavail = bks[ins[o.inst].book].avail]

----------------------------------------------------------------------------
(* Borrowing.save of a new Borrowing on the BookInstance object o *)

\* Variant: Borrowing.save without the availability test
CanBorrowAlways(o) == TRUE

\* if self.book_instance.is_available:
CanBorrow(o) == o.iav

\* dueOk = FALSE: the object has no due_date, which the NOT NULL column rejects.
BorrowingCreate(bks, ins, brs, o, dueOk) ==
    IF ~CanBorrow(o)
    THEN [outcome |-> "ValueError", books |-> bks, insts |-> ins, bors |-> brs, obj |-> o]
    ELSE
        LET o1 == [WithBook(bks, ins, o) EXCEPT !.iav = FALSE]
            b == ins[o.inst].book
            sv == BookSave(bks, b, o1.btotal, o1.bavail - 1)
            o2 == [o1 EXCEPT !.bavail = sv.avail]
            ins2 == [ins EXCEPT ![o.inst].avail = FALSE]
        IN  IF ~sv.ok
            THEN [outcome |-> "BookIntegrityError", books |-> bks, insts |-> ins,
                  bors |-> brs, obj |-> o2]
            ELSE IF ~dueOk
            THEN [outcome |-> "IntegrityError", books |-> sv.books, insts |-> ins2,
                  bors |-> brs, obj |-> o2]
            ELSE [outcome |-> "ok", books |-> sv.books, insts |-> ins2,
                  bors |-> Append(brs, [inst |-> o.inst, returned |-> FALSE, rdate |-> 0]),
                  obj |-> [o2 EXCEPT !.bor = Len(brs) + 1, !.ret = FALSE, !.rdate = 0]]

----------------------------------------------------------------------------
(* Borrowing.mark_as_returned on the Borrowing object of o *)

\* Variant: mark_as_returned without the is_returned test
NeedsReturnAlways(o) == TRUE

\* if not self.is_returned:
NeedsReturn(o) == ~o.ret

MarkAsReturned(bks, ins, brs, o, t) ==
    IF ~NeedsReturn(o)
    THEN [outcome |-> "noop", books |-> bks, insts |-> ins, bors |-> brs, obj |-> o]
    ELSE
        LET o1 == [WithBook(bks, ins, o) EXCEPT !.ret = TRUE, !.rdate = t, !.iav = TRUE]
            b == ins[o.inst].book
            sv == BookSave(bks, b, o1.btotal, o1.bavail + 1)
            o2 == [o1 EXCEPT !.bavail = sv.avail]
        IN  IF ~sv.ok
            THEN [outcome |-> "BookIntegrityError", books |-> bks, insts |-> ins,
                  bors |-> brs, obj |-> o2]
            ELSE [outcome |-> "ok", books |-> sv.books,
                  insts |-> [ins EXCEPT ![o.inst].avail = TRUE],
                  bors |-> [brs EXCEPT ![o.bor] = [inst |-> brs[o.bor].inst,
                                                    returned |-> TRUE, rdate |-> t]],
                  obj |-> o2]

----------------------------------------------------------------------------
(* Operations of the catalog *)

\* target: the BookInstance id of a create or add, the Borrowing id of a return
Done(op, s, x, outcome) == [op |-> op, sid |-> s, target |-> x, outcome |-> outcome]

Quiet == Done("other", "none", 0, "ok")

EmptyCatalog ==
    /\ books = <<>>
    /\ insts = <<>>
    /\ bors = <<>>
    /\ now = 1
    /\ sess = [s \in Sessions |-> NoObject]
    /\ last = Quiet

SeedIdle ==
    /\ pc = "idle"
    /\ args = [authors |-> 0, users |-> 0, books |-> 0, borrowings |-> 0]
    /\ booksLeft = 0
    /\ pool = {}
    /\ pool0 = 0
    /\ created = 0
    /\ tries = 0

Init == EmptyCatalog /\ SeedIdle

\* Book.objects.create(total_copies=t, available_copies=a)
CreateBook(t, a) ==
    /\ Len(books) < MaxBooks
    /\ LET sv == BookSave(books, 0, t, a)
       IN  /\ books' = sv.books
           /\ last' = Quiet
    /\ UNCHANGED <<insts, bors, now, sess>>
    /\ UNCHANGED seedVars

\* book = Book.objects.get(pk=b); book.total_copies = t; book.save()
SetTotalCopies(b, t) ==
    /\ b \in 1..Len(books)
    /\ LET sv == BookSave(books, b, t, books[b].avail)
       IN  /\ books' = sv.books
           /\ last' = Quiet
    /\ UNCHANGED <<insts, bors, now, sess>>
    /\ UNCHANGED seedVars

\* BookInstance.objects.create(book=b, is_available=True), auto-numbered
CreateInstance(b) ==
    /\ b \in 1..Len(books)
    /\ Len(insts) < MaxInsts
    /\ LET r == InstanceCreate(insts, b, <<>>, TRUE)
       IN  /\ insts' = r.insts
           /\ last' = Quiet
    /\ UNCHANGED <<books, bors, now, sess>>
    /\ UNCHANGED seedVars

\* A caller loads BookInstance i into a new object.
GetInstance(s, i) ==
    /\ i \in LiveInsts(insts)
    /\ sess' = [sess EXCEPT ![s] = LoadInstance(insts, i)]
    /\ last' = Quiet
    /\ UNCHANGED <<books, insts, bors, now>>
    /\ UNCHANGED seedVars

\* str(instance) reads self.book.title, which loads and caches .book
TouchBook(s) ==
    /\ sess[s].inst # 0
    /\ ~sess[s].bk
    /\ sess' = [sess EXCEPT ![s] = WithBook(books, insts, sess[s])]
    /\ last' = Quiet
    /\ UNCHANGED <<books, insts, bors, now>>
    /\ UNCHANGED seedVars

\* Borrowing.objects.create(book_instance=<the object of s>, ...)
CreateBorrowing(s, dueOk) ==
    /\ sess[s].inst # 0
    /\ Len(bors) < MaxBors
    /\ LET r == BorrowingCreate(books, insts, bors, sess[s], dueOk)
       IN  /\ books' = r.books
           /\ insts' = r.insts
           /\ bors' = r.bors
           /\ sess' = [sess EXCEPT ![s] = r.obj]
           /\ last' = Done("create", s, sess[s].inst, r.outcome)
    /\ UNCHANGED now
    /\ UNCHANGED seedVars

\* <the Borrowing object of s>.mark_as_returned()
MarkReturned(s) ==
    /\ sess[s].bor # 0
    /\ LET r == MarkAsReturned(books, insts, bors, sess[s], now)
       IN  /\ books' = r.books
           /\ insts' = r.insts
           /\ bors' = r.bors
           /\ sess' = [sess EXCEPT ![s] = r.obj]
           /\ now' = IF r.outcome = "noop" THEN now ELSE now + 1
           /\ last' = Done("return", s, sess[s].bor, r.outcome)
    /\ UNCHANGED seedVars

\* Borrowing.objects.create(book_instance=BookInstance.objects.get(pk=i), ...)
FreshBorrowing(i, dueOk) ==
    /\ i \in LiveInsts(insts)
    /\ Len(bors) < MaxBors
    /\ LET r == BorrowingCreate(books, insts, bors, LoadInstance(insts, i), dueOk)
       IN  /\ books' = r.books
           /\ insts' = r.insts
           /\ bors' = r.bors
           /\ last' = Done("create", "fresh", i, r.outcome)
    /\ UNCHANGED <<now, sess>>
    /\ UNCHANGED seedVars

\* Borrowing.objects.get(pk=b).mark_as_returned()
FreshReturn(b) ==
    /\ b \in 1..Len(bors)
    /\ LET r == MarkAsReturned(books, insts, bors, LoadBorrowing(insts, bors, b), now)
       IN  /\ books' = r.books
           /\ insts' = r.insts
           /\ bors' = r.bors
           /\ now' = IF r.outcome = "noop" THEN now ELSE now + 1
           /\ last' = Done("return", "fresh", b, r.outcome)
    /\ UNCHANGED sess
    /\ UNCHANGED seedVars

\* A Book is created with available_copies = total_copies, as the seed command and the
\* field defaults do, or with one more, which Book.save clamps.
Next ==
    \/ \E t \in 1..MaxCopies : \E a \in t..(t + 1) : CreateBook(t, a)
    \/ \E b \in 1..MaxBooks, t \in 1..MaxCopies : SetTotalCopies(b, t)
    \/ \E b \in 1..MaxBooks : CreateInstance(b)
    \/ \E s \in Sessions, i \in 1..MaxInsts : GetInstance(s, i)
    \/ \E s \in Sessions : TouchBook(s)
    \/ \E s \in Sessions, dueOk \in BOOLEAN : CreateBorrowing(s, dueOk)
    \/ \E s \in Sessions : MarkReturned(s)
    \/ \E i \in 1..MaxInsts, dueOk \in BOOLEAN : FreshBorrowing(i, dueOk)
    \/ \E b \in 1..MaxBors : FreshReturn(b)

Spec == Init /\ [][Next]_vars

----------------------------------------------------------------------------
(* Inventory numbering: instances are added with or without an explicit    *)
(* inventory number, and deleted.                                          *)

\* Inventory numbers a caller may pass: two that the generator also produces,
\* the example of the field's comment, and one without a numeric suffix.
ExplicitNumbers ==
    { FormatInventory(1, 2), FormatInventory(2, 1),
      <<"L", "I", "B", "-", "0", "0", "1", "-", "2", "0", "2", "5">>,
      <<"L", "I", "B">> }

\* Book.objects.create(), with the field defaults
ShelveBook ==
    /\ Len(books) < MaxShelfBooks
    /\ books' = BookSave(books, 0, 1, 1).books
    /\ last' = Quiet
    /\ UNCHANGED <<insts, bors, now, sess>>
    /\ UNCHANGED seedVars

\* BookInstance.objects.create(book=b, inventory_number=inv); inv = <<>> is the blank default
AddInstance(b, inv) ==
    /\ b \in 1..Len(books)
    /\ Len(insts) < MaxShelf
    /\ LET r == InstanceCreate(insts, b, inv, TRUE)
       IN  /\ insts' = r.insts
           /\ last' = Done("add", IF inv = <<>> THEN "auto" ELSE "explicit", b, r.outcome)
    /\ UNCHANGED <<books, bors, now, sess>>
    /\ UNCHANGED seedVars

\* on_delete=PROTECT: a BookInstance with Borrowings cannot be deleted
Protected(brs, i) == \E k \in 1..Len(brs) : brs[k].inst = i

\* BookInstance.objects.get(pk=i).delete()
DeleteInstance(i) ==
    /\ i \in LiveInsts(insts)
    /\ ~Protected(bors, i)
    /\ insts' = [insts EXCEPT ![i].deleted = TRUE]
    /\ last' = Quiet
    /\ UNCHANGED <<books, bors, now, sess>>
    /\ UNCHANGED seedVars

ShelfNext ==
    \/ ShelveBook
    \/ \E b \in 1..MaxShelfBooks, inv \in ExplicitNumbers \cup {<<>>} : AddInstance(b, inv)
    \/ \E i \in 1..MaxShelf : DeleteInstance(i)

ShelfSpec == Init /\ [][ShelfNext]_vars

----------------------------------------------------------------------------
(* The seed command: handle() runs create_books_and_instances and then     *)
(* create_borrowings inside one transaction.                               *)

Min(x, y) == IF x < y THEN x ELSE y

SeedArgs ==
    [authors : 0..1, users : 0..1, books : 0..MaxSeedBooks, borrowings : 0..MaxCount]

SeedInit ==
    /\ EmptyCatalog
    /\ pc = "books"
    /\ args \in SeedArgs
    /\ booksLeft = args.books
    /\ pool = {}
    /\ pool0 = 0
    /\ created = 0
    /\ tries = 0

\* An exception leaves handle(): transaction.atomic rolls the stored rows back.
SeedAbort ==
    /\ pc' = "failed"
    /\ books' = <<>>
    /\ insts' = <<>>
    /\ bors' = <<>>
    /\ pool' = {}
    /\ UNCHANGED <<now, sess, last, args, booksLeft, pool0, created, tries>>

\* for _i in range(total_copies): BookInstance.objects.create(book=book, is_available=True)
RECURSIVE AddCopies(_, _, _)
AddCopies(ins, b, k) ==
    IF k = 0 THEN [ok |-> TRUE, insts |-> ins]
    ELSE LET r == InstanceCreate(ins, b, <<>>, TRUE)
         IN  IF r.outcome # "ok" THEN [ok |-> FALSE, insts |-> ins]
             ELSE AddCopies(r.insts, b, k - 1)

\* create_books_and_instances: if not authors: return
SeedBooksSkipped ==
    /\ pc = "books"
    /\ args.authors = 0
    /\ pc' = "borrowings"
    /\ UNCHANGED <<books, insts, bors, now, sess, last, args, booksLeft, pool, pool0, created, tries>>

\* create_books_and_instances: one iteration of for _ in range(count)
SeedBook(copies) ==
    /\ pc = "books"
    /\ args.authors > 0
    /\ booksLeft > 0
    /\ LET sv == BookSave(books, 0, copies, copies)
           r == AddCopies(insts, sv.id, copies)
       IN  IF sv.ok /\ r.ok
           THEN /\ books' = sv.books
                /\ insts' = r.insts
                /\ booksLeft' = booksLeft - 1
                /\ UNCHANGED <<bors, now, sess, last, pc, args, pool, pool0, created, tries>>
           ELSE SeedAbort

\* create_books_and_instances: the loop is over
SeedBooksDone ==
    /\ pc = "books"
    /\ args.authors > 0
    /\ booksLeft = 0
    /\ pc' = "borrowings"
    /\ UNCHANGED <<books, insts, bors, now, sess, last, args, booksLeft, pool, pool0, created, tries>>

\* list(BookInstance.objects.filter(is_available=True))
AvailableInstances(ins) == {LoadInstance(ins, i) : i \in {j \in LiveInsts(ins) : ins[j].avail}}

\* create_borrowings, up to the loop
SeedBorrowingsBegin ==
    /\ pc = "borrowings"
    /\ pool' = AvailableInstances(insts)
    /\ pool0' = Cardinality(AvailableInstances(insts))
    /\ created' = 0
    /\ tries' = 0
    /\ pc' = IF args.users = 0 \/ AvailableInstances(insts) = {} THEN "done" ELSE "loop"
    /\ UNCHANGED <<books, insts, bors, now, sess, last, args, booksLeft>>

\* max_tries = count * 10
MaxTries(count) == count * TriesFactor

\* Variant: while created <= count and tries < max_tries
LoopContinuesOffByOne(c, t, count) == c <= count /\ t < MaxTries(count)

\* while created < count and tries < max_tries
LoopContinues(c, t, count) == c < count /\ t < MaxTries(count)

\* Variant: the refresh without its break
NeverBreaks(p) == FALSE

\* if not available_instances: break   (after the refresh)
BreaksOnEmpty(p) == p = {}

\* Variant: the chosen instance stays in available_instances
PoolKeepsUsed(p, o, o2) == (p \ {o}) \cup {o2}

\* available_instances = [bi for bi in available_instances if bi.id != instance.id]
\* o is the chosen object, o2 the same object after Borrowing.save and mark_as_returned
PoolAfterUse(p, o, o2) == {x \in p : x.inst # o.inst}

\* create_borrowings: one iteration of the while loop
SeedLoopIteration ==
    /\ pc = "loop"
    /\ LoopContinues(created, tries, args.borrowings)
    /\ tries' = tries + 1
    /\ LET p == IF pool = {} THEN AvailableInstances(insts) ELSE pool
       IN  IF BreaksOnEmpty(p)
           THEN /\ pc' = "done"
                /\ pool' = p
                /\ UNCHANGED <<books, insts, bors, now, sess, last, args, booksLeft, pool0, created>>
           ELSE IF p = {}
           THEN \* random.choice([]) raises IndexError
                /\ pc' = "failed"
                /\ books' = <<>>
                /\ insts' = <<>>
                /\ bors' = <<>>
                /\ pool' = {}
                /\ UNCHANGED <<now, sess, last, args, booksLeft, pool0, created>>
           ELSE \E o \in p, returned \in BOOLEAN :
                LET r == BorrowingCreate(books, insts, bors, o, TRUE)
                    q == IF returned /\ r.outcome = "ok"
                         THEN MarkAsReturned(r.books, r.insts, r.bors, r.obj, now)
                         ELSE r
                IN  IF r.outcome # "ok" \/ q.outcome # "ok"
                    THEN /\ pc' = "failed"
                         /\ books' = <<>>
                         /\ insts' = <<>>
                         /\ bors' = <<>>
                         /\ pool' = {}
                         /\ UNCHANGED <<now, sess, last, args, booksLeft, pool0, created>>
                    ELSE /\ books' = q.books
                         /\ insts' = q.insts
                         /\ bors' = q.bors
                         /\ now' = IF returned THEN now + 1 ELSE now
                         /\ pool' = PoolAfterUse(p, o, q.obj)
                         /\ created' = created + 1
                         /\ UNCHANGED <<sess, last, pc, args, booksLeft, pool0>>

\* create_borrowings: the while condition is false
SeedLoopExit ==
    /\ pc = "loop"
    /\ ~LoopContinues(created, tries, args.borrowings)
    /\ pc' = "done"
    /\ UNCHANGED <<books, insts, bors, now, sess, last, args, booksLeft, pool, pool0, created, tries>>

SeedNext ==
    \/ SeedBooksSkipped
    \/ \E copies \in 1..Min(SeedCopiesMax, MaxCopies) : SeedBook(copies)
    \/ SeedBooksDone
    \/ SeedBorrowingsBegin
    \/ SeedLoopIteration
    \/ SeedLoopExit

SeedSpec == SeedInit /\ [][SeedNext]_vars

\* The command is one sequential script: it keeps running until handle() returns or raises.
FairSeedSpec == SeedSpec /\ WF_vars(SeedNext)

----------------------------------------------------------------------------
(* Properties *)

BookIds == 1..Len(books)

AvailableOf(b) == {i \in SiblingIds(insts, b) : insts[i].avail}

Unreturned == {k \in 1..Len(bors) : ~bors[k].returned}

UnreturnedOf(b) == {k \in Unreturned : insts[bors[k].inst].book = b}

StoredRows == <<books, insts, bors>>

\* C1: every stored Book has 0 <= available_copies <= total_copies.
C1_CopiesWithinTotal ==
    \A b \in BookIds : 0 <= books[b].avail /\ books[b].avail <= books[b].total

\* A return whose increment Book.save clamped: more copies are available than the book holds.
C1_Witness ==
    /\ last.op = "return"
    /\ last.outcome = "ok"
    /\ \E b \in BookIds : /\ books[b].avail = books[b].total
                          /\ Cardinality(AvailableOf(b)) > books[b].total

Synced == \A b \in BookIds : books[b].avail = Cardinality(AvailableOf(b))

\* C2: available_copies equals the number of the book's instances stored as available,
\* and no checkout or return that ends normally takes the two out of step.
C2_NeverDesync ==
    [][(last'.op \in {"create", "return"} /\ last'.outcome \in {"ok", "noop"} /\ Synced)
         => Synced']_vars

UnavailableIffBorrowed ==
    \A i \in LiveInsts(insts) : ~insts[i].avail <=> (\E k \in Unreturned : bors[k].inst = i)

\* C3: an instance is stored unavailable exactly when an unreturned Borrowing is on it;
\* stated of the checkouts and returns that end normally.
C3_UnavailableIffBorrowed ==
    [][(last'.op \in {"create", "return"} /\ last'.outcome \in {"ok", "noop"}
          /\ UnavailableIffBorrowed) => UnavailableIffBorrowed']_vars

\* is_available of the BookInstance object the Borrowing is created on, before the call
CallerSeesAvailable ==
    IF last'.sid = "fresh" THEN insts[last'.target].avail ELSE sess[last'.sid].iav

CheckedOut(i) ==
    /\ Len(bors') = Len(bors) + 1
    /\ bors'[Len(bors')] = [inst |-> i, returned |-> FALSE, rdate |-> 0]
    /\ ~insts'[i].avail
    /\ books'[insts[i].book].avail = books[insts[i].book].avail - 1

\* C5: a Borrowing creation stores the instance flag, the book counter and the new
\* Borrowing together, or stores nothing.
C5_AllOrNothing ==
    [][last'.op = "create" => (UNCHANGED StoredRows \/ CheckedOut(last'.target))]_vars

\* is_returned of the Borrowing object mark_as_returned is called on, before the call
CallerSeesReturned ==
    IF last'.sid = "fresh" THEN bors[last'.target].returned ELSE sess[last'.sid].ret

InventoryUnique ==
    \A i, j \in LiveInsts(insts) : insts[i].inv = insts[j].inv => i = j

\* C7: stored inventory numbers are unique and no auto-numbered save produces a number
\* that is already in use.
C7_AutoNumberUnused ==
    /\ InventoryUnique
    /\ ~(last.op = "add" /\ last.sid = "auto" /\ last.outcome = "IntegrityError")

Returned == {k \in 1..Len(bors) : bors[k].returned}

\* C8 as stated: a run creates at most as many borrowings as instances were available
\* when it started.
C8_AtMostInitialPool == pc = "done" => created <= pool0

\* C8 as amended: a run creates at most n borrowings, and at most as many of them are
\* unreturned as instances were available when it started.
C8_UnreturnedAtMostInitialPool ==
    pc \in {"loop", "done"} =>
        /\ created <= args.borrowings
        /\ created - Cardinality(Returned) <= pool0
        /\ Cardinality(Returned) = 0 => created <= pool0

\* The run created more borrowings than instances were available at its start.
C8_Witness == pc = "done" /\ pool0 > 0 /\ created > pool0

\* C9: the seed run never fails on an unavailable instance, and when it ends every
\* book's available_copies is its number of available instances, which is total_copies
\* minus its unreturned borrowings.
C9_SeedKeepsInvariants ==
    /\ pc # "failed"
    /\ pc = "done" =>
         \A b \in BookIds :
            /\ books[b].avail = Cardinality(AvailableOf(b))
            /\ books[b].avail = books[b].total - Cardinality(UnreturnedOf(b))

C9_Witness ==
    /\ pc = "done"
    /\ Unreturned # {}
    /\ Returned # {}
    /\ created > pool0

\* C10: the borrowing loop terminates, with created <= n and tries <= 10 * n.
C10_LoopTerminates ==
    <>[](/\ pc = "done"
         /\ created <= args.borrowings
         /\ tries <= TriesFactor * args.borrowings)

\* The loop stopped short of n because a refresh found no available instance.
C10_Witness ==
    /\ pc = "done"
    /\ tries > 0
    /\ created < args.borrowings
    /\ tries < TriesFactor * args.borrowings

====
